---- MODULE Spec2Model ----
(***************************************************************************)
(* Model of plugins/komida_bot.py: the text classifier (get_campus,        *)
(* get_date), the menu repository (get_menu), the card builder             *)
(* (create_attachments) and the controller (KomidaPlugin.process_message,  *)
(* KomidaPlugin.process_error) with its collaborators: the sqlite menu     *)
(* store, the Slack chat transport and the KomidaUpdate refresh job.       *)
(*                                                                         *)
(* Strings that the code inspects character by character (message text,    *)
(* channel id, subtype) are sequences of one-character strings.  Calendar  *)
(* days are integers counted from a Monday, so weekday() is day % 7.       *)
(***************************************************************************)
EXTENDS Integers, Sequences, FiniteSets, TLC

\* ---------------------------------------------------------------- bounds
MaxToday == 0
MaxStoreRows == 2

\* ------------------------------------------------------ character strings
UpperChars == <<"A","B","C","D","E","F","G","H","I","J","K","L","M",
                "N","O","P","Q","R","S","T","U","V","W","X","Y","Z">>
LowerChars == <<"a","b","c","d","e","f","g","h","i","j","k","l","m",
                "n","o","p","q","r","s","t","u","v","w","x","y","z">>

\* str.lower() on one character
LowerChar(c) ==
    IF \E i \in 1..Len(UpperChars) : UpperChars[i] = c
    THEN LowerChars[CHOOSE i \in 1..Len(UpperChars) : UpperChars[i] = c]
    ELSE c

\* data['text'].lower()
Lower(s) == [i \in 1..Len(s) |-> LowerChar(s[i])]

\* Python's  sub in text  on strings: sub occurs as a contiguous substring
Contains(sub, text) ==
    \E i \in 0..(Len(text) - Len(sub)) :
        \A j \in 1..Len(sub) : text[i + j] = sub[j]

\* str.startswith
StartsWith(s, prefix) ==
    /\ Len(s) >= Len(prefix)
    /\ \A j \in 1..Len(prefix) : s[j] = prefix[j]

Sp == <<" ">>
Nl == <<"\n">>
Bang == <<"!">>
W_alice == <<"a","l","i","c","e">>
W_hello == <<"h","e","l","l","o">>
W_lunch == <<"l","u","n","c","h">>
W_bot == <<"b","o","t">>
W_komidabot == <<"k","o","m","i","d","a","b","o","t">>
W_cde == <<"c","d","e">>
W_drie_eiken == <<"d","r","i","e"," ","e","i","k","e","n">>
W_cgb == <<"c","g","b">>
W_groenenborger == <<"g","r","o","e","n","e","n","b","o","r","g","e","r">>
W_cmi == <<"c","m","i">>
W_middelheim == <<"m","i","d","d","e","l","h","e","i","m">>
W_cst == <<"c","s","t">>
W_stad == <<"s","t","a","d">>
W_city == <<"c","i","t","y">>
W_today == <<"t","o","d","a","y">>
W_tomorrow == <<"t","o","m","o","r","r","o","w">>
W_yesterday == <<"y","e","s","t","e","r","d","a","y">>
W_monday == <<"m","o","n","d","a","y">>
W_tuesday == <<"t","u","e","s","d","a","y">>
W_wednesday == <<"w","e","d","n","e","s","d","a","y">>
W_thursday == <<"t","h","u","r","s","d","a","y">>
W_friday == <<"f","r","i","d","a","y">>
W_saturday == <<"s","a","t","u","r","d","a","y">>
W_sunday == <<"s","u","n","d","a","y">>

\* ----------------------------------------------------------- the regex
\* The letters of '^l+u+n+c+h+!+$' in order.
LunchLetters == <<"l","u","n","c","h","!">>

\* One step of the automaton of l+u+n+c+h+!+ : state k means that the
\* letters 1..k have been seen and the k-th is the current run; 0 is the
\* start, -1 the dead state.
LunchStep(k, c) ==
    IF k = -1 THEN -1
    ELSE IF k >= 1 /\ LunchLetters[k] = c THEN k
    ELSE IF k < Len(LunchLetters) /\ LunchLetters[k + 1] = c THEN k + 1
    ELSE -1

RECURSIVE LunchRun(_, _)
LunchRun(k, s) ==
    IF s = <<>> THEN k ELSE LunchRun(LunchStep(k, Head(s)), Tail(s))

\* the whole of s is in l+u+n+c+h+!+
LunchBody(s) == LunchRun(0, s) = Len(LunchLetters)

\* re.search('^l+u+n+c+h+!+$', text) is not None.  Without re.MULTILINE
\* '^' matches only at the start, and '$' matches at the end of the string
\* and also just before a newline that is the last character.
LunchSearch(text) ==
    \/ LunchBody(text)
    \/ /\ Len(text) >= 1
       /\ text[Len(text)] = "\n"
       /\ LunchBody(SubSeq(text, 1, Len(text) - 1))

\* ------------------------------------------------------------- sorted()
\* sorted(list) for a list whose elements are ordered by key[element]
RECURSIVE InsertSorted(_, _, _)
InsertSorted(x, s, key) ==
    IF s = <<>> THEN <<x>>
    ELSE IF key[x] < key[Head(s)] THEN <<x>> \o s
    ELSE <<Head(s)>> \o InsertSorted(x, Tail(s), key)

RECURSIVE SortedBy(_, _)
SortedBy(s, key) ==
    IF s = <<>> THEN <<>>
    ELSE InsertSorted(s[Len(s)], SortedBy(SubSeq(s, 1, Len(s) - 1), key), key)

\* the elements of a sequence
Range(s) == {s[i] : i \in 1..Len(s)}

\* ------------------------------------------------------- text classifier
CampusCodes == {"cde", "cgb", "cmi", "cst"}

campus_options ==
    << <<"cde", <<W_cde, W_drie_eiken>> >>,
       <<"cgb", <<W_cgb, W_groenenborger>> >>,
       <<"cmi", <<W_cmi, W_middelheim>> >>,
       <<"cst", <<W_cst, W_stad, W_city>> >> >>

\* the order of the campus codes as Python strings
CodeRank == [c \in CampusCodes |->
                CASE c = "cde" -> 1 [] c = "cgb" -> 2 [] c = "cmi" -> 3 [] c = "cst" -> 4]

\* get_campus(text): the codes of the campuses one of whose aliases occurs
\* in the text, sorted; ['cmi'] when there is none
get_campus(text) ==
    LET hits == SelectSeq(campus_options,
                    LAMBDA o : \E i \in 1..Len(o[2]) : Contains(o[2][i], text))
        campus == SortedBy([i \in 1..Len(hits) |-> hits[i][1]], CodeRank)
    IN  IF Len(campus) > 0 THEN campus ELSE <<"cmi">>

\* today.weekday(): Monday is 0
Weekday(day) == day % 7

date_options(today) ==
    << <<W_today, 0>>, <<W_tomorrow, 1>>, <<W_yesterday, -1>>,
       <<W_monday, 0 - Weekday(today)>>, <<W_tuesday, 1 - Weekday(today)>>,
       <<W_wednesday, 2 - Weekday(today)>>, <<W_thursday, 3 - Weekday(today)>>,
       <<W_friday, 4 - Weekday(today)>>, <<W_saturday, 5 - Weekday(today)>>,
       <<W_sunday, 6 - Weekday(today)>> >>

\* get_date(text) on the day today: one date per keyword that occurs in the
\* text, sorted; [today] when there is none
get_date(text, today) ==
    LET hits == SelectSeq(date_options(today), LAMBDA o : Contains(o[1], text))
        cand == [i \in 1..Len(hits) |-> today + hits[i][2]]
        dates == SortedBy(cand, [d \in Range(cand) |-> d])
    IN  IF Len(dates) > 0 THEN dates ELSE <<today>>

\* ------------------------------------------------------------ menu store
\* Rows of the table menu of menu.db.  (date, campus, type) is unique, the
\* item text and the two prices of a row are carried as one value.
StoreCampuses == {"cmi", "cde"}
StoreDays == 0..MaxToday

\* The rows a run of the scraper can write: soup at both campuses on every
\* day, and a meat dish next to the soup at Middelheim on the first day.
RowPool ==
    [date : StoreDays, campus : StoreCampuses, type : {"soup"}, item : {"dish"}]
    \cup {[date |-> 0, campus |-> "cmi", type |-> "meat", item |-> "dish"]}

\* c.execute('SELECT ... WHERE date = ? AND campus = ?'); c.fetchall()
SelectRows(rows, date, campus) == {r \in rows : r.date = date /\ r.campus = campus}

\* itertools.product(dates, campuses) as a list, dates outermost
Product(dates, campuses) ==
    [n \in 1..(Len(dates) * Len(campuses)) |->
        <<dates[((n - 1) \div Len(campuses)) + 1], campuses[((n - 1) % Len(campuses)) + 1]>>]

\* collections.defaultdict(dict) before any access: keys in insertion order
EmptyMenu == [keys |-> <<>>, items |-> <<>>]

\* AddRows that looks menu[(date, campus)] up before it reads the rows, so
\* that the defaultdict creates the key even when no row was fetched
AddRows_touch(menu, key, rows) ==
    [keys  |-> IF key \in Range(menu.keys) THEN menu.keys ELSE Append(menu.keys, key),
     items |-> (key :> [t \in {r.type : r \in rows} |->
                           (CHOOSE r \in rows : r.type = t).item]) @@ menu.items]

\* menu[(date, campus)][menu_type] = (...) for every fetched row: the key is
\* created by the first row assigned under it, so a pair without rows
\* leaves the mapping alone
AddRows(menu, key, rows) ==
    IF rows = {} THEN menu
    ELSE [keys  |-> IF key \in Range(menu.keys) THEN menu.keys ELSE Append(menu.keys, key),
          items |-> (key :> [t \in {r.type : r \in rows} |->
                                (CHOOSE r \in rows : r.type = t).item]) @@ menu.items]

RECURSIVE FillMenu(_, _, _)
FillMenu(menu, pairs, rows) ==
    IF pairs = <<>> THEN menu
    ELSE FillMenu(AddRows(menu, Head(pairs), SelectRows(rows, Head(pairs)[1], Head(pairs)[2])),
                  Tail(pairs), rows)

\* get_menu(campuses, dates) on a store holding rows, when no query fails
get_menu(rows, campuses, dates) == FillMenu(EmptyMenu, Product(dates, campuses), rows)

\* ------------------------------------------------------------- formatter
campus_colors == [c \in CampusCodes |->
    CASE c = "cde" -> "good" [] c = "cgb" -> "warning" [] c = "cmi" -> "danger" [] c = "cst" -> "#439FE0"]

\* create_attachments(menu): one card per key of the mapping, in the order
\* of the mapping.  The title keeps the campus and the date it is built
\* from; the body text of format_menu is not modelled.
create_attachments(menu) ==
    [i \in 1..Len(menu.keys) |->
        [date |-> menu.keys[i][1], campus |-> menu.keys[i][2],
         color |-> campus_colors[menu.keys[i][2]]]]

\* -------------------------------------------------------- chat transport
Reasons == {"channel_not_found", "ratelimited"}

\* what slack_client.api_call('chat.postMessage', ...) can do: answer
\* {'ok': True}, answer {'ok': False, 'error': reason}, or raise
SendResults ==
    {[kind |-> "ok"], [kind |-> "raise"]} \cup {[kind |-> "fail", error |-> r] : r \in Reasons}

\* ------------------------------------------------------ inbound messages
Ch_public == <<"C","1">>
Ch_direct == <<"D","1">>
St_bot_message == <<"b","o","t","_","m","e","s","s","a","g","e">>
St_me_message == <<"m","e","_","m","e","s","s","a","g","e">>

Texts ==
    { W_lunch \o Bang,
      <<"L","u","u","N","C","H","!","!">> \o Nl,
      W_lunch \o Sp \o W_cde,
      W_hello,
      <<"K","o","m","i","d","a","B","o","t">> \o Sp \o W_cde \o Sp \o W_today
          \o Sp \o W_monday \o Sp \o W_tomorrow }

\* an event with the optional fields it carries
Event(channel, fields) == ("channel" :> channel) @@ fields

OptUsername == {<<>>, "username" :> W_komidabot}
OptSubtype == {<<>>, "subtype" :> St_bot_message, "subtype" :> St_me_message}
OptText == {<<>>} \cup {"text" :> t : t \in Texts}

\* The events offered to the plugin: every combination of the filter fields
\* on one text, every text on a public channel from a plain user, and a
\* text without trigger on a direct channel.
Messages ==
    {Event(Ch_public, u @@ s @@ x) :
        u \in OptUsername, s \in OptSubtype, x \in {<<>>, "text" :> (W_lunch \o Bang)}}
    \cup {Event(Ch_public, ("username" :> W_alice) @@ x) : x \in OptText \ {<<>>}}
    \cup {Event(Ch_direct, ("username" :> W_alice) @@ ("text" :> W_hello))}

Todays == 0..MaxToday

\* --------------------------------------------------------------- filter
\* Ignored without the test of the subtype
Ignored_no_subtype(m) ==
    \/ ("username" \in DOMAIN m /\ m.username = W_komidabot)
    \/ "text" \notin DOMAIN m

\* lines 159-163: the sender is the bot, the subtype names a bot, or there
\* is no text
Ignored(m) ==
    \/ ("username" \in DOMAIN m /\ m.username = W_komidabot)
    \/ ("subtype" \in DOMAIN m /\ Contains(W_bot, m.subtype))
    \/ "text" \notin DOMAIN m

\* OutOfScope that takes every text starting with an l for a lunch call
OutOfScope_loose(m) ==
    /\ StartsWith(m.channel, <<"C">>)
    /\ ~ (Contains(W_komidabot, Lower(m.text)) \/ StartsWith(Lower(m.text), <<"l">>))

\* lines 167-169: a public channel and no trigger in the lowercased text
OutOfScope(m) ==
    /\ StartsWith(m.channel, <<"C">>)
    /\ ~ (Contains(W_komidabot, Lower(m.text)) \/ LunchSearch(Lower(m.text)))

\* ---------------------------------------------------------------- state
VARIABLES
    pc,         \* position of process_message: idle, lookup1, notice, noticeErr,
                \* refresh, lookup2, reply, replyErr, done (returned), raised
    today,      \* datetime.datetime.today() truncated to the day
    msg,        \* data, the event being handled
    campuses,   \* local campuses
    dates,      \* local dates
    menus,      \* local menus
    store,      \* rows of the table menu
    conns,      \* connections that the get_menu calls made for this event
                \* opened and had not closed when they ended
    seen,       \* the rows the store held when menus was fetched
    lookups,    \* outcome of every get_menu call made for this event
    refresh,    \* outcome of self.update.run for this event: none, ok, raise
    wrote,      \* the rows that run wrote for this event
    swallowed,  \* the except clause of line 192 caught an exception
    sends,      \* every chat.postMessage call made for this event
    errors      \* every process_error call made for this event

vars == <<pc, today, msg, campuses, dates, menus, store, conns, seen,
          lookups, refresh, wrote, swallowed, sends, errors>>

NoMessage == <<>>

Init ==
    /\ pc = "idle"
    /\ today = 0
    /\ msg = NoMessage
    /\ campuses = <<>>
    /\ dates = <<>>
    /\ menus = EmptyMenu
    /\ store = {}
    /\ conns = 0
    /\ seen = {}
    /\ lookups = <<>>
    /\ refresh = "none"
    /\ wrote = {}
    /\ swallowed = FALSE
    /\ sends = <<>>
    /\ errors = <<>>

\* ------------------------------------------------------------ collaborators
\* KomidaUpdate.run writes a set of rows into the store (a row written again
\* replaces itself) and then returns or raises.
RowSets == {S \in SUBSET RowPool : Cardinality(S) <= MaxStoreRows}

RunWrites(S) == Cardinality(store \cup S) <= MaxStoreRows

\* The timed job of __init__ (self.jobs.append(self.update)) runs between
\* two events.
Job ==
    /\ pc = "idle"
    /\ \E S \in RowSets :
        /\ RunWrites(S)
        /\ S # {}
        /\ store' = store \cup S
    /\ UNCHANGED <<pc, today, msg, campuses, dates, menus, conns, seen,
                   lookups, refresh, wrote, swallowed, sends, errors>>

\* What a call of get_menu can do: return the mapping, fail in
\* sqlite3.connect, or fail in a query.
LookupOutcomes == {"ok", "connect_error", "query_error"}

\* The connection of one get_menu call.  get_menu has no conn.close(): after
\* a normal return the connection is closed only if the runtime finalizes it
\* at once as the frame is dropped, after a failed query the traceback keeps
\* the frame and the connection alive, and a failed connect opens nothing.
ConnAfter(outcome) ==
    CASE outcome = "ok" -> {conns, conns + 1}
      [] outcome = "query_error" -> {conns + 1}
      [] outcome = "connect_error" -> {conns}

\* ----------------------------------------------------------- process_error
\* process_error that sends its message again when it was not accepted
process_error_resend(channel, reason, res) ==
    /\ errors' = Append(errors, [channel |-> channel, reason |-> reason])
    /\ sends' = IF res.kind = "fail"
                THEN sends \o << [what |-> "error", channel |-> channel,
                                  reason |-> reason, result |-> res],
                                 [what |-> "error", channel |-> channel,
                                  reason |-> res.error, result |-> res] >>
                ELSE Append(sends, [what |-> "error", channel |-> channel,
                                    reason |-> reason, result |-> res])

\* process_error(channel, reason) with res the answer of its api_call:
\* one follow-up message to the channel, no resend (lines 226-235)
process_error(channel, reason, res) ==
    /\ errors' = Append(errors, [channel |-> channel, reason |-> reason])
    /\ sends' = Append(sends, [what |-> "error", channel |-> channel,
                               reason |-> reason, result |-> res])

\* response of the latest api_call
LastResponse == sends[Len(sends)].result

\* ---------------------------------------------------------- process_message
\* lines 158-173: filter, channel-scope check, classification
Receive ==
    /\ pc = "idle"
    /\ \E m \in Messages, t \in Todays :
        /\ t >= today
        /\ msg' = m
        /\ today' = t
        /\ IF Ignored(m) \/ OutOfScope(m)
           THEN /\ pc' = "done"
                /\ campuses' = <<>>
                /\ dates' = <<>>
           ELSE /\ pc' = "lookup1"
                /\ campuses' = get_campus(Lower(m.text))
                /\ dates' = get_date(Lower(m.text), t)
    /\ UNCHANGED <<menus, store, conns, seen, lookups, refresh, wrote, swallowed,
                   sends, errors>>

\* line 176: menus = get_menu(campuses, dates), outside any try
Lookup1 ==
    /\ pc = "lookup1"
    /\ \E o \in LookupOutcomes :
        /\ lookups' = Append(lookups, o)
        /\ conns' \in ConnAfter(o)
        /\ IF o = "ok"
           THEN /\ menus' = get_menu(store, campuses, dates)
                /\ seen' = store
                /\ pc' = IF Len(menus'.keys) = 0 THEN "notice" ELSE "reply"
           ELSE /\ pc' = "raised"
                /\ UNCHANGED <<menus, seen>>
    /\ UNCHANGED <<today, msg, campuses, dates, store, refresh, wrote,
                   swallowed, sends, errors>>

\* lines 182-186: the interim notice
Notice ==
    /\ pc = "notice"
    /\ \E res \in SendResults :
        /\ sends' = Append(sends, [what |-> "notice", channel |-> msg.channel,
                                   campuses |-> campuses, dates |-> dates,
                                   result |-> res])
        /\ pc' = CASE res.kind = "ok" -> "refresh"
                   [] res.kind = "fail" -> "noticeErr"
                   [] res.kind = "raise" -> "reply"
        /\ swallowed' = (res.kind = "raise")
    /\ UNCHANGED <<today, msg, campuses, dates, menus, store, conns, seen,
                   lookups, refresh, wrote, errors>>

\* line 187: process_error for the interim notice, inside the try
NoticeError ==
    /\ pc = "noticeErr"
    /\ \E res \in SendResults :
        /\ process_error(msg.channel, LastResponse.error, res)
        /\ pc' = IF res.kind = "raise" THEN "reply" ELSE "refresh"
        /\ swallowed' = (res.kind = "raise")
    /\ UNCHANGED <<today, msg, campuses, dates, menus, store, conns, seen,
                   lookups, refresh, wrote>>

\* Refresh without the except clause: a failure of run leaves process_message
Refresh_uncaught ==
    /\ pc = "refresh"
    /\ \E S \in RowSets, o \in {"ok", "raise"} :
        /\ RunWrites(S)
        /\ store' = store \cup S
        /\ wrote' = S
        /\ refresh' = o
        /\ pc' = IF o = "ok" THEN "lookup2" ELSE "raised"
    /\ UNCHANGED <<today, msg, campuses, dates, menus, conns, seen,
                   lookups, swallowed, sends, errors>>

\* line 190: self.update.run(self.slack_client)
Refresh ==
    /\ pc = "refresh"
    /\ \E S \in RowSets, o \in {"ok", "raise"} :
        /\ RunWrites(S)
        /\ store' = store \cup S
        /\ wrote' = S
        /\ refresh' = o
        /\ pc' = IF o = "ok" THEN "lookup2" ELSE "reply"
        /\ swallowed' = (o = "raise")
    /\ UNCHANGED <<today, msg, campuses, dates, menus, conns, seen,
                   lookups, sends, errors>>

\* Lookup2 that drops the result of the repeated query
Lookup2_stale ==
    /\ pc = "lookup2"
    /\ \E o \in LookupOutcomes :
        /\ lookups' = Append(lookups, o)
        /\ conns' \in ConnAfter(o)
        /\ swallowed' = (o # "ok")
    /\ pc' = "reply"
    /\ UNCHANGED <<today, msg, campuses, dates, menus, seen, store, refresh,
                   wrote, sends, errors>>

\* line 191: menus = get_menu(campuses, dates), inside the try
Lookup2 ==
    /\ pc = "lookup2"
    /\ \E o \in LookupOutcomes :
        /\ lookups' = Append(lookups, o)
        /\ conns' \in ConnAfter(o)
        /\ IF o = "ok"
           THEN /\ menus' = get_menu(store, campuses, dates)
                /\ seen' = store
                /\ UNCHANGED swallowed
           ELSE /\ swallowed' = TRUE
                /\ UNCHANGED <<menus, seen>>
    /\ pc' = "reply"
    /\ UNCHANGED <<today, msg, campuses, dates, store, refresh, wrote,
                   sends, errors>>

\* lines 196-209: the menu reply or the fallback message (which of the
\* fail_gifs random.choice appends to the fallback text is not modelled)
Reply ==
    /\ pc = "reply"
    /\ \E res \in SendResults :
        /\ IF Len(menus.keys) > 0
           THEN sends' = Append(sends, [what |-> "lunch", channel |-> msg.channel,
                                        attachments |-> create_attachments(menus),
                                        result |-> res])
           ELSE sends' = Append(sends, [what |-> "fallback", channel |-> msg.channel,
                                        result |-> res])
        /\ pc' = CASE res.kind = "ok" -> "done"
                   [] res.kind = "fail" -> "replyErr"
                   [] res.kind = "raise" -> "raised"
    /\ UNCHANGED <<today, msg, campuses, dates, menus, store, conns, seen,
                   lookups, refresh, wrote, swallowed, errors>>

\* ReplyError that reports a fixed reason instead of response['error']
ReplyError_reason ==
    /\ pc = "replyErr"
    /\ \E res \in SendResults :
        /\ process_error(msg.channel, "channel_not_found", res)
        /\ pc' = IF res.kind = "raise" THEN "raised" ELSE "done"
    /\ UNCHANGED <<today, msg, campuses, dates, menus, store, conns, seen,
                   lookups, refresh, wrote, swallowed>>

\* lines 212-213: process_error for the reply, outside any try
ReplyError ==
    /\ pc = "replyErr"
    /\ \E res \in SendResults :
        /\ process_error(msg.channel, LastResponse.error, res)
        /\ pc' = IF res.kind = "raise" THEN "raised" ELSE "done"
    /\ UNCHANGED <<today, msg, campuses, dates, menus, store, conns, seen,
                   lookups, refresh, wrote, swallowed>>

\* process_message has returned or raised: its locals are dropped, and what
\* was recorded about the event with them
Return ==
    /\ pc \in {"done", "raised"}
    /\ pc' = "idle"
    /\ msg' = NoMessage
    /\ campuses' = <<>>
    /\ dates' = <<>>
    /\ menus' = EmptyMenu
    /\ conns' = 0
    /\ seen' = {}
    /\ lookups' = <<>>
    /\ refresh' = "none"
    /\ wrote' = {}
    /\ swallowed' = FALSE
    /\ sends' = <<>>
    /\ errors' = <<>>
    /\ UNCHANGED <<today, store>>

Next ==
    \/ Receive
    \/ Lookup1
    \/ Notice
    \/ NoticeError
    \/ Refresh
    \/ Lookup2
    \/ Reply
    \/ ReplyError
    \/ Return
    \/ Job

Spec == Init /\ [][Next]_vars

\* =============================================================== claims
\* process_message has finished with the event msg
Handled == pc \in {"done", "raised"}

\* the (date, campus) pairs the event asks for
Requested == Range(Product(dates, campuses))

\* the requested pairs for which a set of rows holds at least one row
Populated(rows) == {k \in Requested : \E r \in rows : r.date = k[1] /\ r.campus = k[2]}

\* the positions in sends of the messages of one kind
SendsOf(kinds) == {i \in 1..Len(sends) : sends[i].what \in kinds}

ReplyKinds == {"lunch", "fallback"}

\* the first lookup of the event returned an empty mapping: the interim
\* notice is sent exactly then
FirstEmpty == SendsOf({"notice"}) # {}

\* the refresh ran to its end and wrote a row of a requested pair
RefreshPopulated ==
    /\ refresh = "ok"
    /\ \E r \in wrote : <<r.date, r.campus>> \in Requested

\* the "*LUNCH!*" reply was sent with one card per populated pair, and the
\* fallback was not
LunchNotFallback ==
    /\ \E i \in SendsOf({"lunch"}) :
        /\ Len(sends[i].attachments) = Cardinality(Populated(store))
        /\ {<<a.date, a.campus>> : a \in Range(sends[i].attachments)} = Populated(store)
    /\ SendsOf({"fallback"}) = {}

\* C1 as stated: once an accepted event is handled, if its first lookup was
\* empty and the refresh succeeded and wrote a row of a requested pair, the
\* "*LUNCH!*" reply was sent with one card per populated pair and the
\* fallback was not.
C1_Original ==
    (Handled /\ FirstEmpty /\ RefreshPopulated) => LunchNotFallback

\* C1 amended: the same, provided the second lookup itself did not fail; the
\* mapping it returned then holds every requested pair the refresh wrote.
C1_Theorem ==
    (Handled /\ FirstEmpty /\ RefreshPopulated /\ Len(lookups) = 2 /\ lookups[2] = "ok")
        => /\ LunchNotFallback
           /\ \A r \in wrote : <<r.date, r.campus>> \in Requested
                                  => <<r.date, r.campus>> \in Range(menus.keys)

C1_Witness ==
    /\ pc = "done"
    /\ FirstEmpty
    /\ RefreshPopulated
    /\ lookups = <<"ok", "ok">>
    /\ \E i \in SendsOf({"lunch"}) : Len(sends[i].attachments) = 1

\* C2: process_message never raises to its caller, whatever collaborator
\* fails.
C2_NeverRaises == pc # "raised"

\* the event is one the claim C3 speaks of: sent under the bot's own name,
\* of Slack's bot_message subtype, or without a text field
FromBotOrTextless(m) ==
    \/ ("username" \in DOMAIN m /\ m.username = W_komidabot)
    \/ ("subtype" \in DOMAIN m /\ m.subtype = St_bot_message)
    \/ "text" \notin DOMAIN m

\* C3: for an event from the bot itself, from another bot, or without text,
\* process_message returns without a lookup, a refresh or a chat message.
C3_Theorem ==
    (msg # NoMessage /\ FromBotOrTextless(msg))
        => /\ pc = "done"
           /\ lookups = <<>>
           /\ refresh = "none"
           /\ sends = <<>>
           /\ errors = <<>>

C3_Witness ==
    /\ pc = "done"
    /\ msg # NoMessage
    /\ "subtype" \in DOMAIN msg /\ msg.subtype = St_bot_message
    /\ "username" \notin DOMAIN msg
    /\ "text" \in DOMAIN msg
    /\ sends = <<>>

\* s is a stretched lunch call: it starts with l, ends with !, and every
\* letter is followed by itself or by the next letter of l u n c h !
StretchedLunch(s) ==
    /\ Len(s) >= 1
    /\ s[1] = "l"
    /\ s[Len(s)] = "!"
    /\ \A i \in 1..(Len(s) - 1) :
        \E k \in 1..Len(LunchLetters) :
            /\ s[i] = LunchLetters[k]
            /\ \/ s[i + 1] = LunchLetters[k]
               \/ (k < Len(LunchLetters) /\ s[i + 1] = LunchLetters[k + 1])

\* the event is on a public channel
OnPublic(m) == m.channel[1] = "C"

\* a lookup was made or a message was sent for the event
Processed == lookups # <<>> \/ sends # <<>>

\* the events whose lowercased text holds 'komidabot' or is, as a whole, a
\* stretched lunch call
Triggering ==
    {m \in Messages : "text" \in DOMAIN m
        /\ (Contains(W_komidabot, Lower(m.text)) \/ StretchedLunch(Lower(m.text)))}

\* the events whose text is a stretched lunch call followed by one final
\* newline
TriggeringBeforeNewline ==
    {m \in Messages : "text" \in DOMAIN m
        /\ Len(m.text) >= 2
        /\ m.text[Len(m.text)] = "\n"
        /\ StretchedLunch(Lower(SubSeq(m.text, 1, Len(m.text) - 1)))}

\* C4 as stated: for an event from a user with text, on a public channel
\* there is a lookup or a message only if the lowercased text holds
\* 'komidabot' or is, as a whole, a stretched lunch call; on a direct channel
\* the event is always looked up.
C4_Original ==
    (msg # NoMessage /\ ~ FromBotOrTextless(msg))
        => /\ (OnPublic(msg) /\ Processed) => msg \in Triggering
           /\ (~ OnPublic(msg) /\ Handled) => lookups # <<>>

\* C4 amended: the same, where a stretched lunch call may be followed by one
\* final newline.
C4_Theorem ==
    (msg # NoMessage /\ ~ FromBotOrTextless(msg))
        => /\ (OnPublic(msg) /\ Processed)
                => msg \in (Triggering \cup TriggeringBeforeNewline)
           /\ (~ OnPublic(msg) /\ Handled) => lookups # <<>>

C4_Witness ==
    /\ pc = "done"
    /\ msg # NoMessage
    /\ ~ FromBotOrTextless(msg)
    /\ OnPublic(msg)
    /\ msg.text[Len(msg.text)] = "\n"
    /\ SendsOf(ReplyKinds) # {}

\* the messages of process_message itself that were answered ok = false
FailedSends ==
    SelectSeq(sends, LAMBDA m : m.what # "error" /\ m.result.kind = "fail")

\* every message sent for the event was answered ok = true
AllSendsOk == \A i \in 1..Len(sends) : sends[i].result.kind = "ok"

\* the reply of the event was answered ok = false
ReplyFailed == \E i \in SendsOf(ReplyKinds) : sends[i].result.kind = "fail"

\* C5 as stated: once the event is handled, if the reply was answered
\* ok = false then process_error was called exactly once for the event, with
\* the channel of the event and the reason of the transport; if every send
\* was answered ok = true it was not called.
C5_Original ==
    Handled =>
        /\ ReplyFailed =>
             /\ Len(errors) = 1
             /\ \E i \in SendsOf(ReplyKinds) :
                  errors[1] = [channel |-> msg.channel, reason |-> sends[i].result.error]
        /\ AllSendsOk => errors = <<>>

\* C5 amended: process_error is called exactly once for every message of
\* process_message (interim notice, menu reply, fallback) answered ok = false,
\* in their order, with the channel of the event and the reason of that
\* answer, so twice when both the notice and the reply are refused; it is
\* not called when every send is answered ok = true.
C5_Theorem ==
    (msg # NoMessage /\ pc \notin {"noticeErr", "replyErr"})
        => /\ Len(errors) = Len(FailedSends)
           /\ \A i \in 1..Len(errors) :
                errors[i] = [channel |-> msg.channel, reason |-> FailedSends[i].result.error]
           /\ AllSendsOk => errors = <<>>

C5_Witness ==
    /\ Handled
    /\ ReplyFailed
    /\ Len(errors) = 2
    /\ errors[1].reason # errors[2].reason

\* the follow-up messages of process_error
ErrorSends == SelectSeq(sends, LAMBDA m : m.what = "error")

\* C6: every call of process_error sends one follow-up message to the
\* channel of the failed send and ends; a refused follow-up is followed by no
\* other follow-up and by no exception; at most four messages are sent for
\* one event.
C6_Theorem ==
    /\ Len(ErrorSends) = Len(errors)
    /\ \A i \in 1..Len(errors) :
        /\ ErrorSends[i].channel = errors[i].channel
        /\ ErrorSends[i].reason = errors[i].reason
    /\ \A i \in SendsOf({"error"}) :
        /\ i > 1
        /\ sends[i - 1].what # "error"
        /\ sends[i - 1].result.kind = "fail"
        /\ sends[i - 1].channel = sends[i].channel
        /\ (sends[i].result.kind = "fail" /\ i = Len(sends))
              => /\ pc # "raised"
                 /\ (sends[i - 1].what = "notice" /\ swallowed)
                       => (refresh = "raise" \/ (Len(lookups) = 2 /\ lookups[2] # "ok"))
    /\ Len(sends) <= 4

C6_Witness ==
    /\ pc = "done"
    /\ Len(sends) = 4
    /\ sends[4].what = "error"
    /\ sends[4].result.kind = "fail"
    /\ sends[2].result.kind = "fail"

\* an exception was raised on the recovery path of the event: by the send of
\* the interim notice, by the process_error called for it, by the refresh, or
\* by the repeated lookup
RecoveryRaised ==
    \/ \E i \in SendsOf({"notice"}) : sends[i].result.kind = "raise"
    \/ \E i \in SendsOf({"error"}) :
          i > 1 /\ sends[i - 1].what = "notice" /\ sends[i].result.kind = "raise"
    \/ refresh = "raise"
    \/ (Len(lookups) = 2 /\ lookups[2] # "ok")

\* C7: after an exception on the recovery path the flow is at the reply step
\* or past it, and past it exactly one final reply has been sent: the
\* "*LUNCH!*" reply if menus is not empty, the fallback otherwise.
C7_Theorem ==
    RecoveryRaised =>
        /\ pc \in {"reply", "replyErr", "done", "raised"}
        /\ pc # "reply" =>
             /\ Cardinality(SendsOf(ReplyKinds)) = 1
             /\ \A i \in SendsOf(ReplyKinds) :
                  sends[i].what = (IF Len(menus.keys) > 0 THEN "lunch" ELSE "fallback")

C7_Witness ==
    /\ pc = "done"
    /\ refresh = "raise"
    /\ wrote # {}
    /\ SendsOf({"fallback"}) # {}

\* C8: the dates get_date returned for the event are at least one, strictly
\* ascending, hence without duplicates.
C8_SortedUnique ==
    (msg # NoMessage /\ ~ Ignored(msg) /\ ~ OutOfScope(msg))
        => /\ Len(dates) >= 1
           /\ \A i \in 1..(Len(dates) - 1) : dates[i] < dates[i + 1]

\* C9: when a call of get_menu has ended, the connection it opened is
\* closed.
C9_NoOpenConnection == conns = 0

\* C10: menus, whenever a lookup of the event has returned, has as keys
\* exactly the requested pairs with a row in the store as the lookup saw it,
\* each once, and every entry holds exactly the types of the rows of its
\* pair, at least one.
C10_Theorem ==
    (\E i \in 1..Len(lookups) : lookups[i] = "ok")
        => /\ Range(menus.keys) = Populated(seen)
           /\ DOMAIN menus.items = Range(menus.keys)
           /\ \A i, j \in 1..Len(menus.keys) : menus.keys[i] = menus.keys[j] => i = j
           /\ \A k \in Range(menus.keys) :
                /\ DOMAIN menus.items[k] # {}
                /\ DOMAIN menus.items[k] = {r.type : r \in SelectRows(seen, k[1], k[2])}

C10_Witness ==
    /\ pc = "reply"
    /\ Len(menus.keys) = 1
    /\ Cardinality(Requested) = 2
    /\ \E r \in store : <<r.date, r.campus>> \notin Requested

====
